---- MODULE Spec2Model ----
(***************************************************************************)
(* Model of examples/predictive_maintenance/3_model_building.ipynb: one    *)
(* "Run All" execution of the notebook.  Each code cell is one action; an  *)
(* exception raised inside a cell stops the run (pc = "aborted") with the  *)
(* assignments made before the raising statement kept.                     *)
(*                                                                         *)
(* Data frames are kept as sequences of records sorted by RecKey: the row  *)
(* order of a Spark data frame carries no meaning, so one representative   *)
(* per multiset of rows is used.                                           *)
(***************************************************************************)
EXTENDS Integers, Sequences, FiniteSets, TLC

-----------------------------------------------------------------------------
(* Bounds of the model *)

\* longest column list of the feature table (assembler runs)
MaxCols == 3
\* longest exclusion list other than remove_names tried on a column list
MaxExcl == 2
\* most rows of the feature table (splitter runs)
MaxRecords == 3
\* dt_truncated ranges over 1..MaxDate (and NULL)
MaxDate == 3
\* most training rows of a full pipeline run
MaxHealthy == 1
\* the cross-tabulation may return its rows rotated by up to MaxShift places
MaxShift == 1
\* most rows of the shared training part / of each test part (paired runs)
MaxPairTrain == 1
MaxPairTest == 1

-----------------------------------------------------------------------------
(* Program constants *)

\* the evaluation cell addresses the classes '0.0' .. '4.0'
NumClasses == 5
\* label_e of a record on which no component fails
NoFailure == 0
\* VectorIndexer(maxCategories=10)
maxCategories == 10
\* split_date = "2015-10-30", as a day number
SplitDate == 2
\* a missing dt_truncated
NULL == -1
\* the value of a notebook name that no statement has assigned yet
Unassigned == -1

Classes == 0 .. (NumClasses - 1)
Labels == 0 .. (NumClasses - 1)
Dates == 1 .. MaxDate
FeatVals == {0, 1}

label_var == <<"label_e">>
key_cols == <<"machineID", "dt_truncated">>
remove_names == label_var \o key_cols \o <<"failure", "model_encoded", "model">>

-----------------------------------------------------------------------------
(* Generic helpers *)

RECURSIVE SumTo(_, _)
\* f[1] + ... + f[n]
SumTo(f, n) == IF n = 0 THEN 0 ELSE f[n] + SumTo(f, n - 1)

RECURSIVE SumOver(_, _)
\* sum of f[e] for e in the finite set S
SumOver(f, S) ==
  IF S = {} THEN 0
  ELSE LET e == CHOOSE e \in S : TRUE IN f[e] + SumOver(f, S \ {e})

Range(s) == {s[i] : i \in DOMAIN s}

SeqsUpTo(U, n) == UNION {[1 .. k -> U] : k \in 0 .. n}

Rec(d, l, v) == [dt |-> d, label_e |-> l, x |-> v]

RecKey(r) == (r.dt + 1) * 100 + r.label_e * 10 + r.x

IsSorted(s) == \A i \in 1 .. (Len(s) - 1) : RecKey(s[i]) <= RecKey(s[i + 1])

\* the data frames of at most n rows over the row values U
Frames(U, n) == {s \in SeqsUpTo(U, n) : IsSorted(s)}

Merge(s, t) == SortSeq(s \o t, LAMBDA a, b : RecKey(a) < RecKey(b))

-----------------------------------------------------------------------------
(* Feature Assembler: cell "define list of input columns" *)

RECURSIVE ListRemoveWhileIterating(_, _)
\* for x in cols: if x in names: cols.remove(x) -- the element after a removed
\* one is skipped by the iteration
ListRemoveWhileIterating(cols, names) ==
  IF cols = <<>> THEN <<>>
  ELSE IF Head(cols) \in Range(names)
       THEN (IF Tail(cols) = <<>> THEN <<>>
             ELSE <<Head(Tail(cols))>>
                    \o ListRemoveWhileIterating(Tail(Tail(cols)), names))
       ELSE <<Head(cols)>> \o ListRemoveWhileIterating(Tail(cols), names)

RECURSIVE ListWithout(_, _)
\* [x for x in cols if x not in set(names)]
ListWithout(cols, names) ==
  IF cols = <<>> THEN <<>>
  ELSE IF Head(cols) \in Range(names)
       THEN ListWithout(Tail(cols), names)
       ELSE <<Head(cols)>> \o ListWithout(Tail(cols), names)

-----------------------------------------------------------------------------
(* Spark column comparison and DataFrame.filter: a comparison with a NULL  *)
(* operand is NULL ("N"), and filter keeps the rows whose condition is     *)
(* true ("T").                                                             *)

SqlLt(a, b) == IF a = NULL \/ b = NULL THEN "N" ELSE IF a < b THEN "T" ELSE "F"

SqlGe(a, b) == IF a = NULL \/ b = NULL THEN "N" ELSE IF a >= b THEN "T" ELSE "F"

\* feat_data.filter(feat_data.dt_truncated < split_date)
TrainingRows(df, D) == SelectSeq(df, LAMBDA r : SqlLt(r.dt, D) = "T")

\* feat_data.filter(feat_data.dt_truncated >= split_date)
TestingRows(df, D) == SelectSeq(df, LAMBDA r : SqlGe(r.dt, D) = "T")

-----------------------------------------------------------------------------
(* Indexers, fitted on the data frame they are given *)

LabelCount(df, l) == Cardinality({i \in DOMAIN df : df[i].label_e = l})

\* StringIndexer.fit: the distinct labels by descending frequency, equally
\* frequent labels by ascending value; labels[i] gets the index i - 1
FitLabelIndexer(df) ==
  LET P == {df[i].label_e : i \in DOMAIN df}
      Before(a, b) == \/ LabelCount(df, a) > LabelCount(df, b)
                      \/ LabelCount(df, a) = LabelCount(df, b) /\ a < b
  IN [i \in 1 .. Cardinality(P) |->
        CHOOSE l \in P : Cardinality({m \in P : Before(m, l)}) = i - 1]

\* StringIndexerModel.transform of one label
IndexOfLabel(labels, l) == (CHOOSE i \in DOMAIN labels : labels[i] = l) - 1

\* VectorIndexer.fit: a coordinate with at most maxCategories distinct values
\* is categorical (re-encoded over those values), otherwise continuous
FitFeatureIndexer(df) ==
  LET V == {df[i].x : i \in DOMAIN df}
  IN IF Cardinality(V) <= maxCategories
     THEN [categorical |-> TRUE, categories |-> V]
     ELSE [categorical |-> FALSE, categories |-> {}]

\* the rows as the classifier stage sees them
IndexRows(labels, df) ==
  [i \in DOMAIN df |-> [indexedLabel |-> IndexOfLabel(labels, df[i].label_e),
                        indexedFeatures |-> df[i].x]]

-----------------------------------------------------------------------------
(* Trainer *)

DecisionTreeClassifier ==
  [algo |-> "DecisionTree", maxDepth |-> 15, maxBins |-> 32,
   minInstancesPerNode |-> 1, minInfoGain |-> 0, impurity |-> "gini"]

RandomForestClassifier ==
  [algo |-> "RandomForest", maxDepth |-> 15, maxBins |-> 32,
   minInstancesPerNode |-> 1, minInfoGain |-> 0, impurity |-> "gini",
   numTrees |-> 50, featureSubsetStrategy |-> "sqrt", subsamplingRate |-> 632]

\* if model_type == 'RandomForest': <forest> else: <tree>
ConfigureModelForestOnly(mt) ==
  IF mt = "RandomForest" THEN RandomForestClassifier ELSE DecisionTreeClassifier

\* if model_type == 'DecisionTree': ... else: ...
ConfigureModel(mt) ==
  IF mt = "DecisionTree" THEN DecisionTreeClassifier ELSE RandomForestClassifier

\* pipeline_cls_mthd.fit(feat_data)
FitInputFull(trainingDf, fullDf) == fullDf

\* the data frame handed to pipeline_cls_mthd.fit
FitInput(trainingDf, fullDf) == trainingDf

\* Pipeline(stages=[labelIndexer, featureIndexer, model]).fit(df): the two
\* indexers are already fitted models and are kept as they are; the
\* classifier is fitted on the indexed rows of df
PipelineFit(labels, findex, cls, df) ==
  <<labels, findex, [config |-> cls, fittedOn |-> IndexRows(labels, df)]>>

-----------------------------------------------------------------------------
(* Evaluator: cross-tabulation *)

PredKey(r) == r.indexedLabel * 10 + r.prediction

SortPredictions(s) == SortSeq(s, LAMBDA a, b : PredKey(a) < PredKey(b))

\* the ascending sequence of the elements of a finite set of integers
Ascending(S) ==
  [i \in 1 .. Cardinality(S) |->
     CHOOSE e \in S : Cardinality({m \in S : m < e}) = i - 1]

\* s rotated left by k places
Rotate(s, k) ==
  [i \in 1 .. Len(s) |-> s[((i - 1 + k) % Len(s)) + 1]]

\* the orders in which crosstab may return the rows of the given keys: the
\* rows come out of a hash map and are not sorted
RowOrders(keys) ==
  IF keys = {} THEN {<<>>}
  ELSE {Rotate(Ascending(keys), k) : k \in 0 .. MaxShift}

\* predictions.stat.crosstab('indexedLabel', 'prediction').toPandas() with its
\* rows in the order idx: one row per distinct indexedLabel, one column per
\* distinct prediction, a cell holding the number of rows with that pair
Crosstab(preds, idx) ==
  LET cols == {preds[i].prediction : i \in DOMAIN preds}
  IN [index   |-> idx,
      columns |-> cols,
      cell    |-> [rc \in Range(idx) \X cols |->
                     Cardinality({i \in DOMAIN preds :
                                    /\ preds[i].indexedLabel = rc[1]
                                    /\ preds[i].prediction = rc[2]})]]

\* confuse['c.0'] raises KeyError when no row was predicted as c
HasColumn(cf, c) == c \in cf.columns

\* confuse['c.0'][i] raises KeyError when the frame has no row at position i
HasRow(cf, i) == i < Len(cf.index)

\* confuse['c.0'][i]: column c, row at position i of the frame (from 0)
At(cf, c, i) == cf.cell[<<cf.index[i + 1], c>>]

\* np.sum(confuse['c.0'])
ColumnSum(cf, c) ==
  SumTo([k \in 1 .. Len(cf.index) |-> cf.cell[<<cf.index[k], c>>]], Len(cf.index))

\* np.sum(np.sum(confuse[[c1, c2, ...]]))
ColumnsSum(cf, cs) == SumOver([c \in cs |-> ColumnSum(cf, c)], cs)

Failures == 1 .. (NumClasses - 1)

\* tp = confuse['1.0'][1]+confuse['2.0'][2]+confuse['3.0'][3]+confuse['4.0'][4]
TruePositives(cf) == At(cf, 1, 1) + At(cf, 2, 2) + At(cf, 3, 3) + At(cf, 4, 4)

\* fp = np.sum(np.sum(confuse[['1.0', '2.0','3.0','4.0']]))
FalsePositivesNotReduced(cf, tpv) == ColumnsSum(cf, Failures)

\* fp = np.sum(np.sum(confuse[['1.0', '2.0','3.0','4.0']])) - tp
FalsePositives(cf, tpv) == ColumnsSum(cf, Failures) - tpv

\* tn = confuse['0.0'][0]
TrueNegatives(cf) == At(cf, 0, 0)

\* fn = (sum of the row at position 0) - tn
FalseNegativesOfRow(cf, tnv) ==
  SumOver([c \in cf.columns |-> At(cf, c, 0)], cf.columns) - tnv

\* fn = np.sum(np.sum(confuse[['0.0']])) - tn
FalseNegatives(cf, tnv) == ColumnsSum(cf, {0}) - tnv

\* acc_d = np.sum(np.sum(confuse[['0.0','1.0', '2.0','3.0','4.0']]))
AccuracyDenominator(cf) == ColumnsSum(cf, Classes)

-----------------------------------------------------------------------------
(* numpy float64 values as fractions n/d in lowest terms; 0/0 is nan and   *)
(* 1/0 is inf.  Dividing by zero gives nan or inf and a RuntimeWarning,    *)
(* never an exception.                                                     *)

RECURSIVE GCD(_, _)
GCD(a, b) == IF b = 0 THEN a ELSE GCD(b, a % b)

NaN == [n |-> 0, d |-> 0]
Inf == [n |-> 1, d |-> 0]

Frac(a, b) ==
  IF b = 0 THEN (IF a = 0 THEN NaN ELSE Inf)
  ELSE LET g == GCD(a, b) IN [n |-> a \div g, d |-> b \div g]

IsNaN(v) == v.n = 0 /\ v.d = 0
IsInf(v) == v.n # 0 /\ v.d = 0
IsZero(v) == v.n = 0 /\ v.d # 0

FMul(u, v) ==
  IF IsNaN(u) \/ IsNaN(v) THEN NaN
  ELSE IF IsInf(u) \/ IsInf(v)
       THEN (IF IsZero(u) \/ IsZero(v) THEN NaN ELSE Inf)
       ELSE Frac(u.n * v.n, u.d * v.d)

FAdd(u, v) ==
  IF IsNaN(u) \/ IsNaN(v) THEN NaN
  ELSE IF IsInf(u) \/ IsInf(v) THEN Inf
       ELSE Frac(u.n * v.d + v.n * u.d, u.d * v.d)

FDiv(u, v) ==
  IF IsNaN(u) \/ IsNaN(v) THEN NaN
  ELSE IF IsInf(v) THEN (IF IsInf(u) THEN NaN ELSE Frac(0, 1))
       ELSE IF IsInf(u) THEN Inf
            ELSE Frac(u.n * v.d, u.d * v.n)

\* 2.0 * prec * rec/(prec + rec)
F1Score(p, r) == FDiv(FMul(FMul(Frac(2, 1), p), r), FAdd(p, r))

-----------------------------------------------------------------------------
(* State of one run of the notebook *)

VARIABLES
  pc,              \* the cell to run next, "done" or "aborted"
  error,           \* the exception that stopped the run, "none" before
  parquet,         \* the stored feature table: [columns, rows]
  split_date,
  columns,         \* feat_data.columns
  input_features,
  feat_data,       \* rows of feat_data
  featureIndexer,
  labelIndexer,    \* labelIndexer.labels
  training,
  testing,
  model_type,
  model,
  model_pipeline,  \* stages of the fitted pipeline
  predictions,
  confuse,
  tp, fp, tn, fn, acc_d, acc, prec, rec,
  trackLog,        \* calls the tracking service has accepted, in order
  artifact,        \* what is stored at os.path.join(model_dir, model_name)
  alt              \* the second run of a paired execution

dataVars == <<parquet, split_date, columns, input_features, feat_data,
              featureIndexer, labelIndexer, training, testing>>
trainVars == <<model_type, model, model_pipeline>>
evalVars == <<predictions, confuse>>
metricVars == <<tp, fp, tn, fn, acc_d, acc, prec, rec>>

vars == <<pc, error, dataVars, trainVars, evalVars, metricVars, trackLog,
          artifact, alt>>

UnassignedF == [n |-> Unassigned, d |-> Unassigned]
NoFrame == [index |-> <<>>, columns |-> {}, cell |-> <<>>]
NoIndexer == [categorical |-> FALSE, categories |-> {}]
NoModel == [algo |-> "none"]
NoRun == [used |-> FALSE]

\* the state before the first cell runs, for a stored table tbl, a split date
\* D and a model type mt
InitWith(tbl, D, mt, other) ==
  /\ pc = "StartLogging"
  /\ error = "none"
  /\ parquet = tbl
  /\ split_date = D
  /\ columns = <<>>
  /\ input_features = <<>>
  /\ feat_data = <<>>
  /\ featureIndexer = NoIndexer
  /\ labelIndexer = <<>>
  /\ training = <<>>
  /\ testing = <<>>
  /\ model_type = mt
  /\ model = NoModel
  /\ model_pipeline = <<>>
  /\ predictions = <<>>
  /\ confuse = NoFrame
  /\ tp = Unassigned /\ fp = Unassigned /\ tn = Unassigned /\ fn = Unassigned
  /\ acc_d = Unassigned
  /\ acc = UnassignedF /\ prec = UnassignedF /\ rec = UnassignedF
  /\ trackLog = <<>>
  /\ artifact = [written |-> FALSE, content |-> <<>>]
  /\ alt = other

-----------------------------------------------------------------------------
(* Tracker: run.log, run.log_image and run.complete are calls to an        *)
(* external service; each one either is accepted or raises.                *)

LogCall(name, v) == [op |-> "log", name |-> name, value |-> v]
ImageCall(name) == [op |-> "log_image", name |-> name, value |-> Frac(0, 1)]
CompleteCall == [op |-> "complete", name |-> "", value |-> Frac(0, 1)]

\* the calls of one cell, the failAt-th of which raises (0: none raises):
\* the calls before it were accepted
Accepted(calls, failAt) ==
  IF failAt = 0 THEN calls ELSE SubSeq(calls, 1, failAt - 1)

\* where the run goes after a cell whose failAt-th tracking call raised
AfterTracking(failAt, next) == IF failAt = 0 THEN next ELSE "aborted"
TrackingError(failAt) == IF failAt = 0 THEN "none" ELSE "TrackingError"

-----------------------------------------------------------------------------
(* Cells *)

\* run = myexperiment.start_logging()
StartLogging ==
  /\ pc = "StartLogging"
  /\ pc' = "LoadData"
  /\ UNCHANGED <<error, dataVars, trainVars, evalVars, metricVars, trackLog,
                 artifact, alt>>

\* feat_data = spark.read.parquet(...)
LoadDataCell ==
  /\ pc = "LoadData"
  /\ feat_data' = parquet.rows
  /\ columns' = parquet.columns
  /\ pc' = "SelectFeatures"
  /\ UNCHANGED <<error, parquet, split_date, input_features, featureIndexer,
                 labelIndexer, training, testing, trainVars, evalVars,
                 metricVars, trackLog, artifact>>

LoadData == LoadDataCell /\ UNCHANGED alt

\* the source table cannot be read
LoadDataFails ==
  /\ pc = "LoadData"
  /\ pc' = "aborted"
  /\ error' = "IOError"
  /\ UNCHANGED <<dataVars, trainVars, evalVars, metricVars, trackLog,
                 artifact, alt>>

\* input_features = [x for x in feat_data.columns if x not in set(remove_names)]
SelectFeatures ==
  /\ pc = "SelectFeatures"
  /\ input_features' = ListWithout(columns, remove_names)
  /\ pc' = "PrepareData"
  /\ UNCHANGED <<error, parquet, split_date, columns, feat_data,
                 featureIndexer, labelIndexer, training, testing, trainVars,
                 evalVars, metricVars, trackLog, artifact, alt>>

\* assemble the features, fit both indexers on feat_data, split by date and
\* log the two set sizes
PrepareDataCell(failAt) ==
  /\ pc = "PrepareData"
  /\ featureIndexer' = FitFeatureIndexer(feat_data)
  /\ labelIndexer' = FitLabelIndexer(feat_data)
  /\ training' = TrainingRows(feat_data, split_date)
  /\ testing' = TestingRows(feat_data, split_date)
  /\ trackLog' = trackLog \o
       Accepted(<<LogCall("training set size", Frac(Len(training'), 1)),
                  LogCall("testing set size", Frac(Len(testing'), 1))>>, failAt)
  /\ pc' = AfterTracking(failAt, "Train")
  /\ error' = TrackingError(failAt)
  /\ UNCHANGED <<parquet, split_date, columns, input_features, feat_data,
                 trainVars, evalVars, metricVars, artifact>>

PrepareData(failAt) == PrepareDataCell(failAt) /\ UNCHANGED alt

\* configure the classifier by model_type and fit the pipeline; fitting a
\* tree on an empty data frame raises
TrainCell ==
  /\ pc = "Train"
  /\ model' = ConfigureModel(model_type)
  /\ LET df == FitInput(training, feat_data)
     IN IF df = <<>>
        THEN /\ pc' = "aborted"
             /\ error' = "IllegalArgumentException"
             /\ UNCHANGED model_pipeline
        ELSE /\ model_pipeline' = PipelineFit(labelIndexer, featureIndexer, model', df)
             /\ pc' = "Predict"
             /\ UNCHANGED error
  /\ UNCHANGED <<dataVars, model_type, evalVars, metricVars, trackLog,
                 artifact>>

Train == TrainCell /\ UNCHANGED alt

\* score the test rows and cross-tabulate true against predicted class.  The
\* fitted classifier is a function of the feature vector: it gives each
\* distinct test row one of the classes of the label index
Predict ==
  /\ pc = "Predict"
  /\ \E cls \in [Range(testing) -> 0 .. (Len(labelIndexer) - 1)] :
       LET preds == SortPredictions(
                      [i \in DOMAIN testing |->
                         [indexedLabel |-> IndexOfLabel(labelIndexer, testing[i].label_e),
                          prediction   |-> cls[testing[i]]]])
       IN \E idx \in RowOrders({preds[i].indexedLabel : i \in DOMAIN preds}) :
            /\ predictions' = preds
            /\ confuse' = Crosstab(preds, idx)
  /\ pc' = "Evaluate"
  /\ UNCHANGED <<error, dataVars, trainVars, metricVars, trackLog, artifact, alt>>

\* the lookups of the tp statement find their columns and rows
TpLookupsOk(cf) == \A c \in Failures : HasColumn(cf, c) /\ HasRow(cf, c)

\* the lookup of the tn statement finds its column and row
TnLookupOk(cf) == HasColumn(cf, 0) /\ HasRow(cf, 0)

\* the tp statement raises KeyError: nothing is assigned
EvaluateTpKeyError ==
  /\ pc = "Evaluate"
  /\ ~TpLookupsOk(confuse)
  /\ pc' = "aborted"
  /\ error' = "KeyError"
  /\ UNCHANGED <<dataVars, trainVars, evalVars, metricVars, trackLog, artifact, alt>>

\* tp and fp are assigned, then the tn statement raises KeyError
EvaluateTnKeyError ==
  /\ pc = "Evaluate"
  /\ TpLookupsOk(confuse)
  /\ ~TnLookupOk(confuse)
  /\ tp' = TruePositives(confuse)
  /\ fp' = FalsePositives(confuse, tp')
  /\ pc' = "aborted"
  /\ error' = "KeyError"
  /\ UNCHANGED <<dataVars, trainVars, evalVars, tn, fn, acc_d, acc, prec, rec,
                 trackLog, artifact, alt>>

\* the metrics are computed and printed, then logged, then the run is
\* marked complete
Evaluate(failAt) ==
  /\ pc = "Evaluate"
  /\ TpLookupsOk(confuse)
  /\ TnLookupOk(confuse)
  /\ tp' = TruePositives(confuse)
  /\ fp' = FalsePositives(confuse, tp')
  /\ tn' = TrueNegatives(confuse)
  /\ fn' = FalseNegatives(confuse, tn')
  /\ acc_d' = AccuracyDenominator(confuse)
  /\ acc' = Frac(tn' + tp', acc_d')
  /\ prec' = Frac(tp', tp' + fp')
  /\ rec' = Frac(tp', tp' + fn')
  /\ trackLog' = trackLog \o
       Accepted(<<LogCall("Model Accuracy", acc'),
                  LogCall("Model Precision", prec'),
                  LogCall("Model Recall", rec'),
                  LogCall("Model F1", F1Score(prec', rec')),
                  CompleteCall>>, failAt)
  /\ pc' = AfterTracking(failAt, "Importances")
  /\ error' = TrackingError(failAt)
  /\ UNCHANGED <<dataVars, trainVars, evalVars, artifact, alt>>

\* plot the feature importances, log the image, mark the run complete
Importances(failAt) ==
  /\ pc = "Importances"
  /\ trackLog' = trackLog \o
       Accepted(<<ImageCall("Features_importances"), CompleteCall>>, failAt)
  /\ pc' = AfterTracking(failAt, "Persist")
  /\ error' = TrackingError(failAt)
  /\ UNCHANGED <<dataVars, trainVars, evalVars, metricVars, artifact, alt>>

\* model_pipeline.write().overwrite().save(...)
Persist ==
  /\ pc = "Persist"
  /\ artifact' = [written |-> TRUE, content |-> model_pipeline]
  /\ pc' = "done"
  /\ UNCHANGED <<error, dataVars, trainVars, evalVars, metricVars, trackLog, alt>>

-----------------------------------------------------------------------------
(* Full pipeline runs *)

PipelineColumns ==
  <<"machineID", "dt_truncated", "volt", "model", "failure", "label_e">>

\* k rows of healthy history before the split date
HealthyPart(k) == [i \in 1 .. k |-> Rec(SplitDate - 1, NoFailure, 0)]

\* one row per label of S on the split date and, when extra, one more
\* healthy row with another feature vector
TestPart(S, extra) ==
  [i \in 1 .. Cardinality(S) |-> Rec(SplitDate, Ascending(S)[i], 0)]
    \o (IF extra THEN <<Rec(SplitDate, NoFailure, 1)>> ELSE <<>>)

Init ==
  \E k \in 0 .. MaxHealthy, S \in SUBSET Labels, extra \in BOOLEAN :
    InitWith([columns |-> PipelineColumns,
              rows |-> Merge(HealthyPart(k), TestPart(S, extra))],
             SplitDate, "RandomForest", NoRun)

Next ==
  \/ StartLogging
  \/ LoadData
  \/ LoadDataFails
  \/ SelectFeatures
  \/ \E failAt \in 0 .. 2 : PrepareData(failAt)
  \/ Train
  \/ Predict
  \/ EvaluateTpKeyError
  \/ EvaluateTnKeyError
  \/ \E failAt \in 0 .. 5 : Evaluate(failAt)
  \/ \E failAt \in 0 .. 2 : Importances(failAt)
  \/ Persist

Spec == Init /\ [][Next]_vars

-----------------------------------------------------------------------------
(* The confusion matrix by its definition: rows counted by true and        *)
(* predicted class, whatever the order of the rows of the frame            *)

CountCell(preds, t, p) ==
  Cardinality({i \in DOMAIN preds :
                 preds[i].indexedLabel = t /\ preds[i].prediction = p})

CountTrue(preds, t) ==
  Cardinality({i \in DOMAIN preds : preds[i].indexedLabel = t})

CountPredicted(preds, p) ==
  Cardinality({i \in DOMAIN preds : preds[i].prediction = p})

DiagonalFailures(preds) ==
  SumOver([c \in Failures |-> CountCell(preds, c, c)], Failures)

TrueClasses(preds) == {preds[i].indexedLabel : i \in DOMAIN preds}

MetricsComputed == acc_d # Unassigned

\* the frame has its rows in ascending order of true class
RowsAscending == confuse.index = Ascending(Range(confuse.index))

\* the evaluation cell has run: it raised KeyError or computed the metrics
EvaluateRan == (pc = "aborted" /\ error = "KeyError") \/ MetricsComputed

\* C2: whenever the Evaluator has computed its counts, tp + fp + tn + fn is
\* the number of test records, and so is the accuracy denominator acc_d.
C2_Reconciliation ==
  MetricsComputed =>
    /\ tp + fp + tn + fn = Len(testing)
    /\ acc_d = Len(testing)

C2_Witness ==
  /\ MetricsComputed
  /\ tp > 0 /\ fp > 0 /\ tn > 0 /\ fn > 0
  /\ Len(testing) > NumClasses
  /\ confuse.index # Ascending(Range(confuse.index))

\* C3 as stated: fn is the number of test records whose true class is 0
\* minus the diagonal cell of class 0 (here even with the rows of the frame
\* in ascending order).
C3_AsStated ==
  (MetricsComputed /\ RowsAscending) =>
    fn = CountTrue(predictions, 0) - CountCell(predictions, 0, 0)

\* C3, amended: fn is the number of test records whose predicted class is 0
\* (the sum of the '0.0' column) minus the computed tn.
C3_FalseNegatives ==
  MetricsComputed => fn = CountPredicted(predictions, 0) - tn

C3_Witness ==
  /\ MetricsComputed
  /\ fn > 0 /\ tn > 0
  /\ fn # CountTrue(predictions, 0) - CountCell(predictions, 0, 0)

\* C4: for every order of the rows of the cross-tabulation, tp is the sum of
\* the cells (true c, predicted c) for c in 1..4 and tn is the cell (true 0,
\* predicted 0).
C4_DiagonalLookup ==
  MetricsComputed =>
    /\ tp = DiagonalFailures(predictions)
    /\ tn = CountCell(predictions, 0, 0)

\* C5: the artifact is written only in a run whose evaluation succeeded with
\* precision, recall and F1 all defined (here even with the rows of the
\* frame in ascending order).
C5_ArtifactOnlyAfterEvaluation ==
  (artifact.written /\ RowsAscending) =>
    /\ MetricsComputed
    /\ ~IsNaN(prec) /\ ~IsNaN(rec) /\ ~IsNaN(F1Score(prec, rec))

\* C6: no run is aborted by a failed call to the tracking service.
C6_TrackingNeverAborts == ~(pc = "aborted" /\ error = "TrackingError")

\* C7: when the evaluation cell has run on a matrix with all five true
\* classes in which no record is predicted as a failure (TP + FP = 0), it
\* has not raised and precision, recall and F1 have a value.
C7_ZeroDenominatorDefined ==
  ( /\ EvaluateRan
    /\ predictions # <<>>
    /\ TrueClasses(predictions) = Classes
    /\ \A c \in Failures : CountPredicted(predictions, c) = 0 )
  => (error # "KeyError" /\ prec # UnassignedF /\ rec # UnassignedF)

-----------------------------------------------------------------------------
(* Feature Assembler runs: the column list of the stored table varies *)

ColumnNames ==
  {"machineID", "dt_truncated", "label_e", "model", "volt", "rotate"}

InitAssembler ==
  \E cols \in SeqsUpTo(ColumnNames, MaxCols) :
    InitWith([columns |-> cols, rows |-> <<>>], SplitDate, "RandomForest", NoRun)

NextAssembler ==
  \/ StartLogging
  \/ LoadData
  \/ LoadDataFails
  \/ SelectFeatures

SpecAssembler == InitAssembler /\ [][NextAssembler]_vars

FeaturesSelected == pc = "PrepareData"

\* the positions of cols that hold a name outside names
KeptPositions(cols, names) == {i \in DOMAIN cols : cols[i] \notin Range(names)}

\* lst is cols with the names of names removed, the rest in its order
IsColumnsWithout(lst, cols, names) ==
  /\ Len(lst) = Cardinality(KeptPositions(cols, names))
  /\ \A j \in DOMAIN lst : lst[j] = cols[Ascending(KeptPositions(cols, names))[j]]

\* C8: input_features is the table's columns with the excluded names
\* removed, in the original order; for every exclusion list of at most
\* MaxExcl names the same holds, naming an excluded name twice or a name
\* absent from the columns changes nothing, and excluding a second time
\* changes nothing.
C8_Exclusion ==
  FeaturesSelected =>
    /\ IsColumnsWithout(input_features, columns, remove_names)
    /\ ListWithout(input_features, remove_names) = input_features
    /\ ListWithout(columns, remove_names \o remove_names) = input_features
    /\ \A names \in SeqsUpTo(ColumnNames, MaxExcl) :
         LET kept == ListWithout(columns, names)
         IN /\ IsColumnsWithout(kept, columns, names)
            /\ ListWithout(kept, names) = kept
            /\ \A n \in ColumnNames :
                 (n \in Range(names) \/ n \notin Range(columns)) =>
                   ListWithout(columns, names \o <<n>>) = kept

C8_Witness ==
  /\ FeaturesSelected
  /\ Len(input_features) >= 2
  /\ Len(input_features) < Len(columns)
  /\ \E n \in Range(remove_names) : n \notin Range(columns)
  /\ \E i \in DOMAIN columns :
       i < Len(columns) /\ columns[i] \in Range(remove_names)

-----------------------------------------------------------------------------
(* Splitter runs: the rows of the stored table and the split date vary *)

SplitRows == {Rec(d, l, 0) : d \in Dates \cup {NULL}, l \in Labels}

InitSplit ==
  \E rows \in Frames(SplitRows, MaxRecords), D \in Dates :
    InitWith([columns |-> PipelineColumns, rows |-> rows], D, "RandomForest", NoRun)

NextSplit ==
  \/ StartLogging
  \/ LoadData
  \/ LoadDataFails
  \/ SelectFeatures
  \/ \E failAt \in 0 .. 2 : PrepareData(failAt)

SpecSplit == InitSplit /\ [][NextSplit]_vars

\* the split statements of the PrepareData cell have run
SplitDone == pc = "Train" \/ (pc = "aborted" /\ error = "TrackingError")

\* the number of rows of df equal to r
Copies(df, r) == Cardinality({i \in DOMAIN df : df[i] = r})

\* C1: the Splitter partitions the table: training rows are before the split
\* date, test rows are on or after it, and every row of the input, one with a
\* missing timestamp included, is in exactly one of the two subsets.
C1_Partition ==
  SplitDone =>
    /\ \A i \in DOMAIN training : training[i].dt < split_date
    /\ \A i \in DOMAIN testing : testing[i].dt >= split_date
    /\ \A r \in Range(feat_data) :
         Copies(training, r) + Copies(testing, r) = Copies(feat_data, r)

\* C10: whenever the data (every record of it with a timestamp) has
\* no-failure records, the label indexer gives the no-failure label the
\* index 0.
C10_NoFailureIsClassZero ==
  ( /\ SplitDone
    /\ \A i \in DOMAIN feat_data : feat_data[i].dt # NULL
    /\ NoFailure \in Range(labelIndexer) ) =>
    IndexOfLabel(labelIndexer, NoFailure) = 0

-----------------------------------------------------------------------------
(* Paired runs: two executions on tables with the same rows before the     *)
(* split date.  The second run's names are the fields of alt.              *)

PairTrainRows == {Rec(SplitDate - 1, l, 0) : l \in Labels}
PairTestRows == {Rec(SplitDate, l, v) : l \in Labels, v \in FeatVals}

SecondRun(rows) ==
  [used |-> TRUE, rows |-> rows, feat_data |-> <<>>,
   featureIndexer |-> NoIndexer, labelIndexer |-> <<>>,
   training |-> <<>>, testing |-> <<>>, model_pipeline |-> <<>>]

InitPair ==
  \E tr \in Frames(PairTrainRows, MaxPairTrain),
     ta \in Frames(PairTestRows, MaxPairTest),
     tb \in Frames(PairTestRows, MaxPairTest) :
    InitWith([columns |-> PipelineColumns, rows |-> Merge(tr, ta)],
             SplitDate, "RandomForest", SecondRun(Merge(tr, tb)))

PairLoadData ==
  /\ LoadDataCell
  /\ alt' = [alt EXCEPT !.feat_data = alt.rows]

PairPrepareData(failAt) ==
  /\ PrepareDataCell(failAt)
  /\ alt' = [alt EXCEPT
       !.featureIndexer = FitFeatureIndexer(alt.feat_data),
       !.labelIndexer = FitLabelIndexer(alt.feat_data),
       !.training = TrainingRows(alt.feat_data, split_date),
       !.testing = TestingRows(alt.feat_data, split_date)]

PairTrain ==
  /\ TrainCell
  /\ LET df == FitInput(alt.training, alt.feat_data)
     IN alt' = [alt EXCEPT !.model_pipeline =
                  IF df = <<>> THEN <<>>
                  ELSE PipelineFit(alt.labelIndexer, alt.featureIndexer,
                                   ConfigureModel(model_type), df)]

NextPair ==
  \/ StartLogging
  \/ PairLoadData
  \/ LoadDataFails
  \/ SelectFeatures
  \/ \E failAt \in 0 .. 2 : PairPrepareData(failAt)
  \/ PairTrain

SpecPair == InitPair /\ [][NextPair]_vars

BothFitted == pc = "Predict" /\ alt.model_pipeline # <<>>

\* C9 as stated: two runs with the same training subset have the same
\* fitted pipeline in every stage.
C9_AsStated ==
  (BothFitted /\ training = alt.training) =>
    model_pipeline = alt.model_pipeline

\* C9, amended: the label index and the feature index are fitted on the full
\* dataset, so every test label has an index; two runs with the same
\* training subset, the same label index and the same feature index have the
\* same fitted pipeline in every stage.
C9_TrainingOnly ==
  BothFitted =>
    /\ \A i \in DOMAIN testing : testing[i].label_e \in Range(labelIndexer)
    /\ \A i \in DOMAIN testing : testing[i].x \in featureIndexer.categories
    /\ ( /\ training = alt.training
         /\ labelIndexer = alt.labelIndexer
         /\ featureIndexer = alt.featureIndexer )
       => model_pipeline = alt.model_pipeline

C9_Witness ==
  /\ BothFitted
  /\ training = alt.training
  /\ labelIndexer = alt.labelIndexer
  /\ featureIndexer = alt.featureIndexer
  /\ testing # alt.testing

-----------------------------------------------------------------------------
(* Trainer runs: the whole notebook for each text the first line of the    *)
(* training cell may assign to model_type                                  *)

\* the two documented values, the commented-out third one, and a value that
\* differs from a documented one by case only
ModelTypes == {"DecisionTree", "RandomForest", "GBTClassifier", "decisiontree"}

\* hyperparameters that exist on the ensemble only
EnsembleParams == {"numTrees", "featureSubsetStrategy", "subsamplingRate"}

InitTrainer ==
  \E mt \in ModelTypes, k \in 0 .. MaxHealthy :
    InitWith([columns |-> PipelineColumns,
              rows |-> Merge(HealthyPart(k), TestPart(Labels, FALSE))],
             SplitDate, mt, NoRun)

SpecTrainer == InitTrainer /\ [][Next]_vars

Configured == model # NoModel
Fitted == model_pipeline # <<>>

\* the classifier the cell has configured follows the flag
SwitchFollowsFlag ==
  Configured =>
    /\ model.algo \in {"DecisionTree", "RandomForest"}
    /\ (model.algo = "DecisionTree") <=> (model_type = "DecisionTree")
    /\ (model_type # "DecisionTree") => (model.algo = "RandomForest")
    /\ (model.algo = "RandomForest") => (EnsembleParams \subseteq DOMAIN model)
    /\ (model.algo = "DecisionTree") => (EnsembleParams \cap DOMAIN model = {})
    /\ Fitted => (Len(model_pipeline) = 3 /\ model_pipeline[3].config = model)

\* nothing is fitted before a classifier is configured; once configured the
\* classifier is not replaced, and once fitted the pipeline is not replaced
FitOnceAndTerminal ==
  /\ Fitted => Configured
  /\ Configured => (model' = model)
  /\ Fitted => (model_pipeline' = model_pipeline)

\* C11: for every value of model_type the training cell configures exactly
\* one classifier: the decision tree if and only if model_type is
\* 'DecisionTree', the random forest for every other value, none being
\* rejected; numTrees, featureSubsetStrategy and subsamplingRate are set on
\* the random forest only; the pipeline is fitted once and the fitted
\* pipeline is never replaced in the rest of the run.
C11_TrainerSwitch ==
  /\ [](~Configured => ~Fitted)
  /\ []SwitchFollowsFlag
  /\ [][FitOnceAndTerminal]_vars

\* a run with a flag outside the two documented values has fitted the
\* random forest and has gone through every later cell
C11_Witness ==
  /\ pc = "done"
  /\ model_type \notin {"DecisionTree", "RandomForest"}
  /\ model.algo = "RandomForest"
  /\ Fitted
  /\ artifact.written
  /\ artifact.content[3].config = RandomForestClassifier

-----------------------------------------------------------------------------
(* Tracker calls of a complete run *)

\* positions in the accepted calls of run.complete, and of run.log and
\* run.log_image
CompleteCalls == {i \in DOMAIN trackLog : trackLog[i].op = "complete"}
ReportCalls == {i \in DOMAIN trackLog : trackLog[i].op \in {"log", "log_image"}}

\* C12: in every complete run the tracking run is marked complete at most
\* once, and every run.log and run.log_image call, the one of the
\* 'Features_importances' image included, precedes that run.complete call.
C12_CompleteOnceAfterReports ==
  pc = "done" =>
    /\ Cardinality(CompleteCalls) <= 1
    /\ \A i \in ReportCalls, j \in CompleteCalls : i < j

====
